---------------------------- MODULE Spec2Model ----------------------------
(* A model of the terminal-utils crate: the platform terminal drivers      *)
(* (unix.rs, windows.rs), the raw-mode guard (lib.rs) and the resize       *)
(* watcher with its tokio watch channel.                                   *)
EXTENDS Integers, Sequences, FiniteSets, TLC

VARIABLES
    platform,   \* "unix" | "windows": the driver selected by cfg (lib.rs 40-50)
    mode,       \* the mode of the terminal device (termios / console mode)
    guards,     \* sequence of RawModeGuard records, in creation order
    ret,        \* what the last public call returned to its caller
    lastWrite,  \* history: the call whose mode write took effect last
    lifo,       \* history: every call succeeded and releases were LIFO
    pc,         \* per thread: position inside enable_raw_mode
    local,      \* per thread: the locals of enable_raw_mode
    geom,       \* the geometry the terminal reports to size()
    sigPending, \* POSIX: a window-change signal waits in the signal stream
    chan,       \* the watch channel: value, version, whether it exists
    task,       \* position of the watcher task
    rx,         \* per subscriber: the Receiver and the task using it
    pubs,       \* history: the values the watcher published, in order
    late        \* history: size queries (q) and publishes (p) the watcher
                \* made after the last receiver was dropped

rawVars == <<platform, mode, guards, ret, lastWrite, lifo>>
thrVars == <<pc, local>>
watchVars == <<geom, sigPending, chan, task, rx, pubs, late>>
vars == <<platform, mode, guards, ret, lastWrite, lifo, pc, local,
          geom, sigPending, chan, task, rx, pubs, late>>

-----------------------------------------------------------------------------
(* Bounds of the model.                                                    *)
MaxGuards == 3
MaxThreads == 2
MaxRestores == 2
MaxTokens == 2
MaxSubscribers == 2
MaxPublishes == 2
MaxLate == 2
MaxModeBits == 10

-----------------------------------------------------------------------------
(* Bit operations on unsigned masks.                                       *)
RECURSIVE BitAnd(_, _)
BitAnd(a, b) ==
    IF a = 0 \/ b = 0 THEN 0
    ELSE (a % 2) * (b % 2) + 2 * BitAnd(a \div 2, b \div 2)

BitOr(a, b) == a + b - BitAnd(a, b)

\* a & !m
BitClear(a, m) == a - BitAnd(a, m)

-----------------------------------------------------------------------------
(* Windows driver: console mode bits (windows.rs 9-15, 18-31).             *)
ENABLE_PROCESSED_INPUT == 1
ENABLE_LINE_INPUT == 2
ENABLE_ECHO_INPUT == 4
ENABLE_WINDOW_INPUT == 8
ENABLE_MOUSE_INPUT == 16
ENABLE_INSERT_MODE == 32
ENABLE_QUICK_EDIT_MODE == 64
ENABLE_EXTENDED_FLAGS == 128
ENABLE_AUTO_POSITION == 256
ENABLE_VIRTUAL_TERMINAL_INPUT == 512

RAW_MODE_MASK ==
    BitOr(BitOr(ENABLE_EXTENDED_FLAGS, ENABLE_INSERT_MODE),
          BitOr(ENABLE_QUICK_EDIT_MODE, ENABLE_VIRTUAL_TERMINAL_INPUT))

NOT_RAW_MODE_MASK ==
    BitOr(BitOr(BitOr(ENABLE_LINE_INPUT, ENABLE_ECHO_INPUT),
                BitOr(ENABLE_MOUSE_INPUT, ENABLE_WINDOW_INPUT)),
          ENABLE_PROCESSED_INPUT)

win_is_raw_mode_on_any_raw_bit(m) ==
    BitAnd(m, NOT_RAW_MODE_MASK) = 0 /\ BitAnd(m, RAW_MODE_MASK) # 0

\* windows.rs 54: the predicate of is_raw_mode_enabled
win_is_raw_mode(m) ==
    BitAnd(m, NOT_RAW_MODE_MASK) = 0 /\ BitAnd(m, RAW_MODE_MASK) = RAW_MODE_MASK

win_new_mode_replaces(original_mode) == RAW_MODE_MASK

win_new_mode_no_raw_bits(original_mode) == BitClear(original_mode, NOT_RAW_MODE_MASK)

\* windows.rs 61: original_mode & !NOT_RAW_MODE_MASK | RAW_MODE_MASK
win_new_mode(original_mode) ==
    BitOr(BitClear(original_mode, NOT_RAW_MODE_MASK), RAW_MODE_MASK)

-----------------------------------------------------------------------------
(* POSIX driver: termios flags (Linux values of the libc crate) and the    *)
(* libc calls of unix.rs.                                                  *)
IGNBRK == 1
BRKINT == 2
PARMRK == 8
ISTRIP == 32
INLCR == 64
IGNCR == 128
ICRNL == 256
IXON == 1024
OPOST == 1
CSIZE == 48
CS7 == 32
CS8 == 48
PARENB == 256
ISIG == 1
ICANON == 2
ECHO == 8
ECHONL == 64
IEXTEN == 32768

Termios(i, o, c, l, vmin, vtime) ==
    [c_iflag |-> i, c_oflag |-> o, c_cflag |-> c, c_lflag |-> l,
     vmin |-> vmin, vtime |-> vtime]

cfmakeraw_keeps_icanon(t) ==
    [t EXCEPT !.c_lflag = BitClear(t.c_lflag, ECHO + ECHONL + ISIG + IEXTEN)]

\* unix.rs 55: libc::cfmakeraw
cfmakeraw(t) ==
    [c_iflag |-> BitClear(t.c_iflag,
                    IGNBRK + BRKINT + PARMRK + ISTRIP + INLCR + IGNCR + ICRNL + IXON),
     c_oflag |-> BitClear(t.c_oflag, OPOST),
     c_cflag |-> BitOr(BitClear(t.c_cflag, CSIZE + PARENB), CS8),
     c_lflag |-> BitClear(t.c_lflag, ECHO + ECHONL + ICANON + ISIG + IEXTEN),
     vmin |-> 1, vtime |-> 0]

\* unix.rs 45: (termios.c_lflag & libc::ICANON) == 0
unix_is_raw_mode(t) == BitAnd(t.c_lflag, ICANON) = 0

-----------------------------------------------------------------------------
(* The sys:: dispatch of lib.rs 47-50.                                     *)
sys_is_raw_mode(m) ==
    IF platform = "unix" THEN unix_is_raw_mode(m) ELSE win_is_raw_mode(m)

sys_raw_of(m) ==
    IF platform = "unix" THEN cfmakeraw(m) ELSE win_new_mode(m)

\* Every console mode bitmask over the low MaxModeBits bits of the DWORD.
ConsoleModes == 0 .. (2 ^ MaxModeBits - 1)

\* The console modes the guard is exercised from: each cooked part with each
\* raw part, with and without an unrelated bit.
InitConsoleModes ==
    { cooked + raw + other :
        cooked \in {0,
                    ENABLE_PROCESSED_INPUT + ENABLE_LINE_INPUT + ENABLE_ECHO_INPUT,
                    ENABLE_MOUSE_INPUT,
                    NOT_RAW_MODE_MASK},
        raw \in {0,
                 ENABLE_EXTENDED_FLAGS + ENABLE_QUICK_EDIT_MODE + ENABLE_INSERT_MODE,
                 RAW_MODE_MASK},
        other \in {0, ENABLE_AUTO_POSITION} }

\* The termios settings the guard is exercised from (cooked, half-raw, raw).
UnixModes ==
    { Termios(i, r[1], r[2], l, r[3], r[4]) :
        i \in {0, ICRNL + IXON},
        l \in {0, ICANON, ICANON + ECHO + ISIG + IEXTEN, ECHO},
        r \in {<<OPOST, CS8, 1, 0>>, <<0, CS7 + PARENB, 4, 0>>, <<0, CS8, 1, 0>>} }

InitModes == IF platform = "unix" THEN UnixModes ELSE InitConsoleModes

Threads == 1 .. MaxThreads

\* History of the call whose write of the device mode took effect last:
\* `before` is the mode it replaced, `twice` says that it is a restore_mode
\* whose token was also the token of the write before it.
Write(op, g, before, twice) ==
    [op |-> op, g |-> g, before |-> before, twice |-> twice]

\* What a public call handed back, with a snapshot of the device mode and of
\* the number of guards at the moment it was called.
Ret(op, err, value, g, mode0, n0) ==
    [op |-> op, err |-> err, value |-> value, g |-> g, mode0 |-> mode0, n0 |-> n0]

-----------------------------------------------------------------------------
(* The driver calls as functions of the device mode and of the step that   *)
(* fails ("none": every system call succeeds).                             *)

\* unix.rs 48-59, windows.rs 57-65: the errors enable_raw_mode can return
EnableFails == {"none", "open", "get", "set"}
\* unix.rs 61-68, windows.rs 67-72: the errors restore_mode can return
RestoreFails == {"none", "open", "set"}
\* unix.rs 40-46, windows.rs 50-55: the errors is_raw_mode_enabled can return
QueryFails == {"none", "open", "get"}

captured_state_is_new_mode(original, new) == new

\* unix.rs 53, 58 / windows.rs 59, 64: the token enable_raw_mode returns
captured_state(original, new) == original

enable_mode_after_partial_write(m, fail) ==
    IF fail \in {"none", "set"} THEN sys_raw_of(m) ELSE m

\* unix.rs 49-56 / windows.rs 58-62: the device mode after enable_raw_mode
enable_mode_after(m, fail) ==
    IF fail = "none" THEN sys_raw_of(m) ELSE m

guard_created_unless_open_fails(fail) == fail # "open"

\* lib.rs 95: `sys::enable_raw_mode()?` returns early, so Self is built
\* only when the driver call succeeded
guard_created(fail) == fail = "none"

restore_mode_after_skips_write(m, state, fail) == m

restore_mode_after_reapplies_raw(m, state, fail) ==
    IF fail = "none" THEN (IF m = state THEN sys_raw_of(state) ELSE state) ELSE m

\* unix.rs 62-65 / windows.rs 68-69: the device mode after restore_mode
restore_mode_after(m, state, fail) ==
    IF fail = "none" THEN state ELSE m

restored_state_of_first_guard(gs, g) == gs[1].state

\* lib.rs 104: a guard restores its own original_state, whatever other
\* guards exist
restored_state(gs, g) == gs[g].state

drop_result_propagates(fail) == fail

\* lib.rs 104: `let _ = sys::restore_mode(..)` discards the error
drop_result(fail) == "none"

drop_restore_attempts_retrying(fail) == IF fail = "none" THEN 1 ELSE 2

\* lib.rs 103-105: drop calls restore_mode once and discards its result
drop_restore_attempts(fail) == 1

-----------------------------------------------------------------------------
(* The raw-mode guard, one caller (lib.rs 66-106).                         *)

HeldGuards == { g \in 1 .. Len(guards) : guards[g].held }

TopGuard == CHOOSE g \in HeldGuards : \A h \in HeldGuards : h <= g

\* Every other held guard has now seen a mode write that is not its own.
Touch(gs, except) ==
    [ g \in 1 .. Len(gs) |->
        IF g # except /\ gs[g].held THEN [gs[g] EXCEPT !.clean = FALSE] ELSE gs[g] ]

InitRaw ==
    /\ platform \in {"unix", "windows"}
    /\ mode \in InitModes
    /\ guards = <<>>
    /\ ret = Ret("none", "none", FALSE, 0, mode, 0)
    /\ lastWrite = Write("init", 0, mode, FALSE)
    /\ lifo = TRUE

InitThreads ==
    /\ pc = [t \in Threads |-> "idle"]
    /\ local = [t \in Threads |-> mode]

\* lib.rs 52-59
TerminalSize(w, h, pw, ph) ==
    [width |-> w, height |-> h, pixel_width |-> pw, pixel_height |-> ph]

\* The geometries the terminal takes: 80x24 and 100x30, no pixel data.
Sizes == { TerminalSize(80, 24, 0, 0), TerminalSize(100, 30, 0, 0) }

\* Stands for the value of a channel or receiver that does not exist yet.
NoSize == TerminalSize(0, 0, 0, 0)

Subscribers == 1 .. MaxSubscribers

\* A Receiver and the task using it: `seen` is the version the receiver has
\* marked seen, `obs` the value it was created with or has read last, and
\* `obsVer` the channel's version at that moment.
Receiver(st, seen, obs, obsVer) ==
    [st |-> st, seen |-> seen, obs |-> obs, obsVer |-> obsVer]

\* No on_resize() call has been made; the terminal has one of `sizes`.
NoWatcher(sizes) ==
    /\ geom \in sizes
    /\ sigPending = FALSE
    /\ chan = [open |-> FALSE, value |-> NoSize, version |-> 0, seed |-> NoSize]
    /\ task = "none"
    /\ rx = [s \in Subscribers |-> Receiver("none", 0, NoSize, 0)]
    /\ pubs = <<>>
    /\ late = [q |-> 0, p |-> 0]

\* lib.rs 67-69: is_raw_mode_enabled()
IsRawModeEnabled(fail) ==
    /\ ret' = Ret("is_raw", fail,
                  IF fail = "none" THEN sys_is_raw_mode(mode) ELSE FALSE,
                  0, mode, Len(guards))
    /\ UNCHANGED <<platform, mode, guards, lastWrite, lifo>>

\* lib.rs 73-75, 94-98: enable_raw_mode() -> RawModeGuard::new()
EnableRawMode(fail) ==
    /\ Len(guards) < MaxGuards
    /\ LET original == mode
           new == enable_mode_after(mode, fail)
           id == Len(guards) + 1
       IN  /\ mode' = new
           /\ IF guard_created(fail)
              THEN guards' = Append(Touch(guards, 0),
                        [state |-> captured_state(original, new), pre |-> mode,
                         held |-> TRUE, restores |-> 0, restored |-> FALSE,
                         clean |-> TRUE, nested |-> HeldGuards, outlived |-> {}])
              ELSE guards' = guards
           /\ lastWrite' = IF fail = "none"
                           THEN Write("enable", id, mode, FALSE)
                           ELSE lastWrite
           /\ lifo' = (lifo /\ fail = "none")
           /\ ret' = Ret("enable", fail, FALSE, IF fail = "none" THEN id ELSE 0,
                         mode, Len(guards))
    /\ UNCHANGED platform

\* lib.rs 101-106: Drop for RawModeGuard
DropGuard(g, fail) ==
    /\ g \in HeldGuards
    /\ mode' = restore_mode_after(mode, restored_state(guards, g), fail)
    /\ guards' = [ (IF fail = "none" THEN Touch(guards, g) ELSE guards) EXCEPT
                     ![g].held = FALSE,
                     ![g].outlived = HeldGuards \ {g},
                     ![g].restores = guards[g].restores + drop_restore_attempts(fail),
                     ![g].restored = (fail = "none") ]
    /\ lastWrite' = IF fail = "none"
                    THEN Write("restore", g, mode, FALSE)
                    ELSE lastWrite
    /\ lifo' = (lifo /\ fail = "none" /\ g = TopGuard)
    /\ ret' = Ret("drop", drop_result(fail), FALSE, g, mode, Len(guards))
    /\ UNCHANGED platform

\* unix.rs 61-68 / windows.rs 67-72: the driver's restore_mode called with a
\* token (TerminalState is Copy, so one token can be replayed)
RestoreMode(g, fail) ==
    /\ g \in 1 .. Len(guards)
    /\ guards[g].restores < MaxRestores
    /\ mode' = restore_mode_after(mode, guards[g].state, fail)
    /\ guards' = [guards EXCEPT ![g].restores = guards[g].restores + 1]
    /\ lastWrite' = IF fail = "none"
                    THEN Write("restore", g, mode,
                               lastWrite.op = "restore" /\ lastWrite.g = g)
                    ELSE lastWrite
    /\ ret' = Ret("restore", fail, FALSE, g, mode, Len(guards))
    /\ UNCHANGED <<platform, lifo>>

Init == InitRaw /\ InitThreads /\ NoWatcher({TerminalSize(80, 24, 0, 0)})

Next ==
    \/ \E fail \in QueryFails :
          IsRawModeEnabled(fail) /\ UNCHANGED thrVars /\ UNCHANGED watchVars
    \/ \E fail \in EnableFails :
          EnableRawMode(fail) /\ UNCHANGED thrVars /\ UNCHANGED watchVars
    \/ \E g \in 1 .. MaxGuards, fail \in RestoreFails :
          DropGuard(g, fail) /\ UNCHANGED thrVars /\ UNCHANGED watchVars

Spec == Init /\ [][Next]_vars

\* The driver layer alone: sys::enable_raw_mode and sys::restore_mode called
\* in any order.
NextDriver ==
    \/ \E fail \in EnableFails :
          /\ Len(guards) < MaxTokens
          /\ EnableRawMode(fail) /\ UNCHANGED thrVars /\ UNCHANGED watchVars
    \/ \E g \in 1 .. MaxTokens, fail \in RestoreFails :
          RestoreMode(g, fail) /\ UNCHANGED thrVars /\ UNCHANGED watchVars

SpecDriver == Init /\ [][NextDriver]_vars

-----------------------------------------------------------------------------
(* The raw-mode calls issued by several threads of one process.  The        *)
(* driver holds no lock (unix.rs 48-59, windows.rs 57-65): the read of the  *)
(* mode and the write of the new mode are two system calls, and calls of    *)
(* other threads can run between them.                                      *)

Idle(t) == pc[t] = "idle"

\* Threads that have read the mode and not yet written see a foreign write.
Race(except) ==
    [ t \in Threads |->
        IF t # except /\ pc[t] = "got" THEN [local[t] EXCEPT !.raced = TRUE]
        ELSE local[t] ]

\* The modes the terminal starts in when several threads call the library:
\* a cooked terminal and a terminal that is raw already.
ConcModes ==
    IF platform = "unix"
    THEN { Termios(ICRNL + IXON, OPOST, CS8, ICANON + ECHO + ISIG + IEXTEN, 1, 0),
           Termios(0, 0, CS8, 0, 1, 0) }
    ELSE { NOT_RAW_MODE_MASK, RAW_MODE_MASK }

InitConc ==
    /\ platform \in {"unix", "windows"}
    /\ mode \in ConcModes
    /\ guards = <<>>
    /\ ret = Ret("none", "none", FALSE, 0, mode, 0)
    /\ lastWrite = Write("init", 0, mode, FALSE)
    /\ lifo = TRUE
    /\ pc = [t \in Threads |-> "idle"]
    /\ local = [t \in Threads |-> [original |-> mode, read |-> mode, raced |-> FALSE]]
    /\ NoWatcher({TerminalSize(80, 24, 0, 0)})

\* unix.rs 49-53 / windows.rs 58-59: open the device, read the current mode
ThreadEnableGet(t, fail) ==
    /\ Idle(t)
    /\ Len(guards) + Cardinality({u \in Threads : pc[u] = "got"}) < MaxTokens
    /\ IF fail = "none"
       THEN /\ pc' = [pc EXCEPT ![t] = "got"]
            /\ local' = [local EXCEPT ![t] =
                            [original |-> mode, read |-> mode, raced |-> FALSE]]
            /\ ret' = ret
       ELSE /\ ret' = Ret("enable", fail, FALSE, 0, mode, Len(guards))
            /\ UNCHANGED <<pc, local>>
    /\ UNCHANGED <<platform, mode, guards, lastWrite, lifo>>
    /\ UNCHANGED watchVars

\* unix.rs 55-58 / windows.rs 61-64, lib.rs 95-97: compute the new mode from
\* the mode read, write it, build the guard around the mode read
ThreadEnableSet(t, fail) ==
    /\ pc[t] = "got"
    /\ LET original == local[t].original
           new == sys_raw_of(original)
           id == Len(guards) + 1
       IN  /\ mode' = IF fail = "none" THEN new ELSE mode
           /\ IF guard_created(fail)
              THEN guards' = Append(Touch(guards, 0),
                        [state |-> captured_state(original, new), pre |-> mode,
                         held |-> TRUE, restores |-> 0, restored |-> FALSE,
                         clean |-> TRUE, nested |-> HeldGuards, outlived |-> {},
                         read |-> local[t].read, raced |-> local[t].raced])
              ELSE guards' = guards
           /\ lastWrite' = IF fail = "none" THEN Write("enable", id, mode, FALSE)
                           ELSE lastWrite
           /\ ret' = Ret("enable", fail, FALSE, IF fail = "none" THEN id ELSE 0,
                         mode, Len(guards))
    /\ pc' = [pc EXCEPT ![t] = "idle"]
    /\ local' = IF fail = "none" THEN Race(t) ELSE local
    /\ UNCHANGED <<platform, lifo>>
    /\ UNCHANGED watchVars

\* lib.rs 101-106: a thread drops a guard
ThreadDropGuard(t, g, fail) ==
    /\ Idle(t)
    /\ DropGuard(g, fail)
    /\ local' = IF fail = "none" THEN Race(t) ELSE local
    /\ UNCHANGED pc
    /\ UNCHANGED watchVars

\* lib.rs 67-69: a thread asks whether raw mode is enabled
ThreadIsRawModeEnabled(t, fail) ==
    /\ Idle(t)
    /\ IsRawModeEnabled(fail)
    /\ UNCHANGED thrVars
    /\ UNCHANGED watchVars

NextConc ==
    \/ \E t \in Threads, fail \in {"none", "open", "get"} : ThreadEnableGet(t, fail)
    \/ \E t \in Threads, fail \in {"none", "set"} : ThreadEnableSet(t, fail)
    \/ \E t \in Threads, g \in 1 .. MaxTokens, fail \in RestoreFails :
          ThreadDropGuard(t, g, fail)
    \/ \E t \in Threads, fail \in QueryFails : ThreadIsRawModeEnabled(t, fail)

SpecConc == InitConc /\ [][NextConc]_vars

\* The Windows driver on every console mode: is_raw_mode_enabled() and one
\* enable_raw_mode() from each mode.
InitWinModes ==
    /\ platform = "windows"
    /\ mode \in ConsoleModes
    /\ guards = <<>>
    /\ ret = Ret("none", "none", FALSE, 0, mode, 0)
    /\ lastWrite = Write("init", 0, mode, FALSE)
    /\ lifo = TRUE
    /\ InitThreads
    /\ NoWatcher({TerminalSize(80, 24, 0, 0)})

NextWinModes ==
    \/ \E fail \in QueryFails :
            IsRawModeEnabled(fail) /\ UNCHANGED thrVars /\ UNCHANGED watchVars
    \/ \E fail \in EnableFails :
            /\ guards = <<>>
            /\ EnableRawMode(fail) /\ UNCHANGED thrVars /\ UNCHANGED watchVars

SpecWinModes == InitWinModes /\ [][NextWinModes]_vars

-----------------------------------------------------------------------------
(* The resize watcher: on_resize() (lib.rs 77-86), the watcher task of     *)
(* each driver (unix.rs 70-86, windows.rs 75-100) and the subscriber loop  *)
(* of the crate documentation (lib.rs 28-38) on a tokio watch channel.     *)

\* The value the channel held at version v (0: the value it was created with).
ValueAt(v) == IF v = 0 THEN chan.seed ELSE pubs[v]

watch_channel_unseen(size) ==
    [open |-> TRUE, value |-> size, version |-> 1, seed |-> size]

\* lib.rs 81: tokio::sync::watch::channel(terminal_size); the receiver it
\* returns has the initial value marked seen
watch_channel(size) ==
    [open |-> TRUE, value |-> size, version |-> 0, seed |-> size]

\* unix.rs 81: tx.send_replace(size) stores the value and notifies
send_replace(ch, size) ==
    [ch EXCEPT !.value = size, !.version = ch.version + 1]

send_if_modified_always(ch, size) == send_replace(ch, size)

\* windows.rs 86-93: tx.send_if_modified(|current_size| ...) stores and
\* notifies only when the closure reports a modification
send_if_modified(ch, size) ==
    IF ch.value # size THEN send_replace(ch, size) ELSE ch

publish_without_notifying(ch, size) == [ch EXCEPT !.value = size]

\* unix.rs 80-82 / windows.rs 85-94: what the watcher does with Ok(size)
publish(ch, size) ==
    IF platform = "unix" THEN send_replace(ch, size) ELSE send_if_modified(ch, size)

LiveReceivers == { s \in Subscribers : rx[s].st \in {"idle", "notified"} }

is_closed_of_first_receiver == rx[1].st = "dropped"

\* windows.rs 81: tx.is_closed(), true when no receiver is left
is_closed == LiveReceivers = {}

changed_ready_on_value(r, ch) == ch.value # r.obs

\* lib.rs 32: resize_rx.changed() completes when the channel's version is
\* not the one the receiver has marked seen
changed_ready(r, ch) == ch.version # r.seen

InitWatch ==
    /\ platform \in {"unix", "windows"}
    /\ mode = 0
    /\ guards = <<>>
    /\ ret = Ret("none", "none", FALSE, 0, 0, 0)
    /\ lastWrite = Write("init", 0, 0, FALSE)
    /\ lifo = TRUE
    /\ pc = [t \in Threads |-> "idle"]
    /\ local = [t \in Threads |-> 0]
    /\ NoWatcher(Sizes)

Waiting_until_closed ==
    IF platform = "unix" THEN (IF is_closed THEN "exited" ELSE "recv") ELSE "sleep"

\* The position of the watcher task when it waits for its trigger.
Waiting == IF platform = "unix" THEN "recv" ELSE "sleep"

task_spawned_before_signal(fail) == fail # "size"

\* lib.rs 80, 83 and unix.rs 74-76: tokio::spawn is reached only when size()
\* and the signal registration have returned Ok
task_spawned(fail) == fail = "none"

\* lib.rs 80-85: Ok(rx) is returned only when no `?` has returned before; on
\* an error both ends of a channel already created are dropped
receiver_returned(fail) == fail = "none"

\* lib.rs 79-86: on_resize(); `fail` names the step that returns an error
OnResize(fail) ==
    /\ task = "none"
    /\ fail \in (IF platform = "unix" THEN {"none", "size", "spawn"}
                 ELSE {"none", "size"})
    /\ ret' = Ret("on_resize", fail, FALSE, 0, 0, 0)
    /\ IF receiver_returned(fail)
       THEN /\ chan' = watch_channel(geom)
            /\ rx' = [rx EXCEPT ![1] = Receiver("idle", 0, chan'.value, 0)]
       ELSE UNCHANGED <<chan, rx>>
    /\ task' = IF task_spawned(fail)
               THEN (IF platform = "unix" THEN "recv" ELSE "check")
               ELSE task
    /\ UNCHANGED <<geom, sigPending, pubs, late>>

\* The terminal is resized; on POSIX the kernel raises the window-change
\* signal, which the stream registered at unix.rs 74 records.
Resize(size) ==
    /\ size # geom
    /\ geom' = size
    /\ sigPending' = (sigPending \/ (platform = "unix" /\ task \notin {"none"}))
    /\ UNCHANGED <<chan, task, rx, pubs, late, ret>>

\* POSIX: a window-change signal that no resize caused (kill -WINCH).
ExternalSignal ==
    /\ platform = "unix" /\ task # "none" /\ ~sigPending
    /\ sigPending' = TRUE
    /\ UNCHANGED <<geom, chan, task, rx, pubs, late, ret>>

\* unix.rs 78: signal.recv().await returns
UnixRecv ==
    /\ platform = "unix" /\ task = "recv" /\ sigPending
    /\ sigPending' = FALSE
    /\ task' = "query"
    /\ UNCHANGED <<geom, chan, rx, pubs, late, ret>>

\* windows.rs 81-83: the is_closed() test at the head of the loop
WinCheck ==
    /\ platform = "windows" /\ task = "check"
    /\ task' = IF is_closed THEN "exited" ELSE "query"
    /\ UNCHANGED <<geom, sigPending, chan, rx, pubs, late, ret>>

query_error_publishes(ch, ok, size) == send_replace(ch, IF ok THEN size ELSE ch.value)

\* unix.rs 80-82 / windows.rs 85-94: `if let Ok(size) = size() { publish }`,
\* an Err is dropped and the channel is not touched
on_query(ch, ok, size) == IF ok THEN publish(ch, size) ELSE ch

after_query_breaks_on_error(ok) == IF ok THEN Waiting ELSE "exited"

\* unix.rs 83 / windows.rs 96-97: the loop goes on to its next wait whatever
\* the query returned
after_query(ok) == Waiting

Count(n) == IF n < MaxLate THEN n + 1 ELSE MaxLate

\* unix.rs 80-82 / windows.rs 85-94: size() and, on Ok, the publish
WatcherQuery(ok) ==
    /\ task = "query"
    /\ chan' = on_query(chan, ok, geom)
    /\ Len(pubs) < MaxPublishes \/ chan'.version = chan.version
    /\ pubs' = IF chan'.version # chan.version THEN Append(pubs, geom) ELSE pubs
    /\ late' = IF LiveReceivers = {}
               THEN [q |-> Count(late.q),
                     p |-> IF chan'.version # chan.version THEN Count(late.p)
                           ELSE late.p]
               ELSE late
    /\ task' = after_query(ok)
    /\ UNCHANGED <<geom, sigPending, rx, ret>>

\* windows.rs 96: the one-second sleep is over
WinTick ==
    /\ platform = "windows" /\ task = "sleep"
    /\ task' = "check"
    /\ UNCHANGED <<geom, sigPending, chan, rx, pubs, late, ret>>

\* lib.rs 32: the subscriber's changed().await completes; until the channel
\* has a version the receiver has not marked seen, the await stays pending.
SubChanged(s) ==
    /\ rx[s].st = "idle"
    /\ changed_ready(rx[s], chan)
    /\ rx' = [rx EXCEPT ![s].st = "notified", ![s].seen = chan.version]
    /\ UNCHANGED <<geom, sigPending, chan, task, pubs, late, ret>>

\* lib.rs 34: the subscriber reads resize_rx.borrow()
SubBorrow(s) ==
    /\ rx[s].st = "notified"
    /\ rx' = [rx EXCEPT ![s].st = "idle", ![s].obs = chan.value,
                        ![s].obsVer = chan.version]
    /\ UNCHANGED <<geom, sigPending, chan, task, pubs, late, ret>>

clone_version_current(r, ch) == ch.version

\* tokio's Clone for watch::Receiver copies the version the source receiver
\* has marked seen (Sender::subscribe, which starts from the current
\* version, is out of reach: the Sender is owned by the watcher task).
clone_version(r, ch) == r.seen

\* The Receiver on_resize() returned (lib.rs 79) is Clone: a further
\* subscriber starts from the version its source has marked seen.
SubClone(s, n) ==
    /\ s \in LiveReceivers /\ n \in Subscribers /\ rx[n].st = "none"
    /\ rx' = [rx EXCEPT ![n] =
                Receiver("idle", clone_version(rx[s], chan), chan.value, chan.version)]
    /\ UNCHANGED <<geom, sigPending, chan, task, pubs, late, ret>>

\* A subscriber drops its Receiver.
SubDrop(s) ==
    /\ s \in LiveReceivers
    /\ rx' = [rx EXCEPT ![s] = Receiver("dropped", 0, NoSize, 0)]
    /\ UNCHANGED <<geom, sigPending, chan, task, pubs, late, ret>>

rawFrame == UNCHANGED <<platform, mode, guards, lastWrite, lifo, pc, local>>

NextWatch ==
    \/ \E fail \in {"none", "size", "spawn"} : OnResize(fail) /\ rawFrame
    \/ \E size \in Sizes : Resize(size) /\ rawFrame
    \/ ExternalSignal /\ rawFrame
    \/ UnixRecv /\ rawFrame
    \/ WinCheck /\ rawFrame
    \/ \E ok \in BOOLEAN : WatcherQuery(ok) /\ rawFrame
    \/ WinTick /\ rawFrame
    \/ \E s \in Subscribers : SubChanged(s) /\ rawFrame
    \/ \E s \in Subscribers : SubBorrow(s) /\ rawFrame
    \/ \E s \in Subscribers : SubClone(s, s + 1) /\ rawFrame
    \/ \E s \in Subscribers : SubDrop(s) /\ rawFrame

SpecWatch == InitWatch /\ [][NextWatch]_vars

\* The watcher and the one receiver on_resize() returned (lib.rs 28-38: the
\* subscriber loops over changed().await and borrow() on that receiver).
NextAwait ==
    \/ \E fail \in {"none", "size", "spawn"} : OnResize(fail) /\ rawFrame
    \/ \E size \in Sizes : Resize(size) /\ rawFrame
    \/ ExternalSignal /\ rawFrame
    \/ UnixRecv /\ rawFrame
    \/ WinCheck /\ rawFrame
    \/ \E ok \in BOOLEAN : WatcherQuery(ok) /\ rawFrame
    \/ WinTick /\ rawFrame
    \/ SubChanged(1) /\ rawFrame
    \/ SubBorrow(1) /\ rawFrame
    \/ SubDrop(1) /\ rawFrame

\* The runtime polls a subscriber task whose changed() can complete, and a
\* subscriber that was notified goes on to read.
SpecWatchFair ==
    /\ InitWatch
    /\ [][NextAwait]_vars
    /\ WF_vars(SubChanged(1) /\ rawFrame)
    /\ WF_vars(SubBorrow(1) /\ rawFrame)

\* The Windows driver alone, with every receiver of the channel: the tokio
\* runtime keeps running a spawned task that can make a step (the timer of
\* windows.rs 96 fires, the loop body of windows.rs 80-97 runs on).
InitWin ==
    /\ InitWatch
    /\ platform = "windows"

NextWin ==
    \/ \E fail \in {"none", "size"} : OnResize(fail) /\ rawFrame
    \/ \E size \in Sizes : Resize(size) /\ rawFrame
    \/ WinCheck /\ rawFrame
    \/ \E ok \in BOOLEAN : WatcherQuery(ok) /\ rawFrame
    \/ WinTick /\ rawFrame
    \/ \E s \in Subscribers : SubChanged(s) /\ rawFrame
    \/ \E s \in Subscribers : SubBorrow(s) /\ rawFrame
    \/ \E s \in Subscribers : SubClone(s, s + 1) /\ rawFrame
    \/ \E s \in Subscribers : SubDrop(s) /\ rawFrame

SpecWinFair ==
    /\ InitWin
    /\ [][NextWin]_vars
    /\ WF_vars(WinCheck /\ rawFrame)
    /\ WF_vars((\E ok \in BOOLEAN : WatcherQuery(ok)) /\ rawFrame)
    /\ WF_vars(WinTick /\ rawFrame)

-----------------------------------------------------------------------------
(* Properties of the raw-mode guard with one caller (Spec).                *)

Guards == 1 .. Len(guards)

\* The mode the call recorded in lastWrite put on the device.
WrittenMode ==
    CASE lastWrite.op = "init" -> lastWrite.before
      [] lastWrite.op = "enable" -> sys_raw_of(lastWrite.before)
      [] lastWrite.op = "restore" -> guards[lastWrite.g].state

\* C1: after a successful enable_raw_mode(), from any terminal mode, and for
\* as long as its guard is held and no other call has written the mode, the
\* device mode satisfies the driver's raw predicate and is_raw_mode_enabled()
\* returns true (POSIX: ICANON cleared by cfmakeraw; Windows: all raw bits
\* set and no cooked bit set).
C1_RawWhileGuardHeld ==
    \A g \in Guards :
        (guards[g].held /\ lastWrite.op = "enable" /\ lastWrite.g = g) =>
            /\ sys_is_raw_mode(mode)
            /\ (ret.op = "is_raw" /\ ret.err = "none") => ret.value = TRUE

C1_Witness ==
    \E g \in Guards :
        /\ guards[g].held /\ lastWrite.op = "enable" /\ lastWrite.g = g
        /\ ~sys_is_raw_mode(guards[g].pre)
        /\ ret.op = "is_raw" /\ ret.err = "none" /\ ret.value = TRUE

\* C2: a successful enable_raw_mode() followed by the release of its guard,
\* the restore succeeding and no other mode write in between, leaves the
\* device mode equal to the mode M found before the call, so that
\* is_raw_mode_enabled() returns what it would have returned before.
C2_RoundTrip ==
    \A g \in Guards :
        (/\ ~guards[g].held /\ guards[g].restored /\ guards[g].clean
         /\ lastWrite.op = "restore" /\ lastWrite.g = g) =>
            /\ mode = guards[g].pre
            /\ sys_is_raw_mode(mode) = sys_is_raw_mode(guards[g].pre)
            /\ (ret.op = "is_raw" /\ ret.err = "none") =>
                    ret.value = sys_is_raw_mode(guards[g].pre)

C2_Witness ==
    \E g \in Guards :
        /\ ~guards[g].held /\ guards[g].restored /\ guards[g].clean
        /\ lastWrite.op = "restore" /\ lastWrite.g = g
        /\ ~sys_is_raw_mode(guards[g].pre)
        /\ mode # sys_raw_of(mode)
        /\ ret.op = "is_raw" /\ ret.err = "none" /\ ret.value = FALSE

\* C3: when guards are acquired and released in strict LIFO order and every
\* call succeeds, the mode after the last release is the mode found before
\* the first acquisition, and after each release the mode is the state the
\* released guard captured.
C3_LifoRestoresOriginal ==
    /\ (lifo /\ Len(guards) >= 1 /\ HeldGuards = {}) => mode = guards[1].pre
    /\ (lifo /\ lastWrite.op = "restore") =>
            /\ mode = guards[lastWrite.g].state
            /\ mode = guards[lastWrite.g].pre

C3_Witness ==
    /\ lifo /\ Len(guards) = MaxGuards /\ HeldGuards = {}
    /\ guards[1].pre # sys_raw_of(guards[1].pre)
    /\ guards[2].pre = guards[3].pre
    /\ mode = guards[1].pre

\* C6: a guard makes no restore attempt while held and exactly one over its
\* lifetime, at release, with the state its capture produced; a failed
\* attempt is discarded (drop reports nothing), the guard is released all
\* the same and the mode is left as it was.
C6_OneRestorePerGuard ==
    /\ \A g \in Guards :
        /\ guards[g].held => guards[g].restores = 0
        /\ ~guards[g].held => guards[g].restores = 1
        /\ guards[g].state = guards[g].pre
    /\ ret.op = "drop" =>
        /\ ret.err = "none"
        /\ ~guards[ret.g].held
        /\ ~guards[ret.g].restored => mode = ret.mode0
    /\ lastWrite.op = "restore" => mode = guards[lastWrite.g].state

C6_Witness ==
    /\ ret.op = "drop" /\ ~guards[ret.g].restored /\ guards[ret.g].restores = 1
    /\ mode # guards[ret.g].state

\* C7: when enable_raw_mode() fails (open, read or write), the caller gets
\* that error, no guard exists for the call, no restore is attempted for it
\* and the device mode is what it was before the call.
C7_FailedEnableChangesNothing ==
    (ret.op = "enable" /\ ret.err # "none") =>
        /\ ret.err \in {"open", "get", "set"}
        /\ Len(guards) = ret.n0
        /\ mode = ret.mode0
        /\ mode = WrittenMode
        /\ \A g \in Guards : guards[g].held => guards[g].restores = 0

C7_Witness ==
    /\ ret.op = "enable" /\ ret.err = "set"
    /\ Len(guards) = 0
    /\ mode # sys_raw_of(mode)

-----------------------------------------------------------------------------
(* Properties of the driver layer (SpecDriver).                            *)

\* C4: restore_mode is idempotent: whatever the mode was before the first of
\* two successive applications of one captured state, the second application
\* finds the mode already equal to that state and leaves it unchanged.
C4_RestoreIdempotent ==
    (lastWrite.op = "restore" /\ lastWrite.twice) =>
        /\ mode = lastWrite.before
        /\ mode = guards[lastWrite.g].state

C4_Witness ==
    /\ lastWrite.op = "restore" /\ lastWrite.twice
    /\ guards[lastWrite.g].restores = 2
    /\ Len(guards) >= 2
    /\ mode # sys_raw_of(mode)

-----------------------------------------------------------------------------
(* Properties of the raw-mode calls of several threads (SpecConc).         *)

\* The claim as stated: enable_raw_mode's read and write are atomic under
\* any interleaving, so a guard owns the mode found immediately before its
\* own write.
C5_CaptureAtomic ==
    \A g \in Guards : guards[g].state = guards[g].pre

\* C5 (amended): the state a guard owns is the mode its own enable_raw_mode
\* read from the device; read and write are separate calls with no lock, and
\* the state equals the mode found immediately before the guard's own write
\* whenever no mode write of another call took effect between the two.
C5_CaptureIsOwnRead ==
    \A g \in Guards :
        /\ guards[g].state = guards[g].read
        /\ ~guards[g].raced => guards[g].state = guards[g].pre

C5_Witness ==
    \E g \in Guards :
        /\ guards[g].raced
        /\ guards[g].state = guards[g].read
        /\ guards[g].state # guards[g].pre
        /\ \E h \in Guards : h # g /\ ~guards[h].raced /\ guards[h].state = guards[h].pre

-----------------------------------------------------------------------------
(* Properties of the resize watcher (SpecWatch, SpecWatchFair).            *)

\* Publish number i changed the value the channel held.
ChangedValue(i) == pubs[i] # ValueAt(i - 1)

\* The claim C8 as stated: a re-query whose result equals the value held in
\* the channel publishes nothing, on every POSIX signal and on every Windows
\* tick: every publish changes the channel's value.
C8_NoRedundantPublish ==
    \A i \in 1 .. Len(pubs) : ChangedValue(i)

\* The Windows half of C8: the equality test of windows.rs 87 suppresses the
\* publish of an unchanged size.
C8_WindowsSuppresses ==
    platform = "windows" => \A i \in 1 .. Len(pubs) : ChangedValue(i)

\* A subscriber completes changed().await.
Woken(s) == rx[s].st = "idle" /\ rx'[s].st = "notified"

\* A subscriber that was woken reads the channel.
Reads(s) == rx[s].st = "notified" /\ rx'[s].st = "idle"

\* The claim C9 as stated, for the receiver on_resize() returned: woken for
\* a publish that changed the channel's value, the subscriber reads that
\* value and finds it different from the value it observed before.
C9_ReadsNewAndDifferent ==
    [][(Reads(1) /\ rx[1].seen >= 1 /\ ChangedValue(rx[1].seen)) =>
            /\ rx'[1].obs = pubs[rx[1].seen]
            /\ rx'[1].obs # rx[1].obs]_vars

\* C9 (amended): a subscriber awaiting a change while a publish is pending
\* is eventually woken (or drops its receiver); it then reads the channel's
\* latest value, which is the published value and differs from the value it
\* observed before when that publish changed the channel's value and is the
\* only publish since the subscriber's previous observation; each completed
\* await consumes at least one new publish and leaves none pending, so a
\* second await does not complete until a further publish.
C9_ChangeDelivered ==
    /\ [](\A s \in LiveReceivers : rx[s].obs = ValueAt(rx[s].obsVer))
    /\ [][\A s \in Subscribers :
            /\ Reads(s) => (rx'[s].obs = chan.value /\ rx'[s].obsVer = chan.version)
            /\ (/\ Reads(s)
                /\ chan.version = rx[s].obsVer + 1
                /\ ChangedValue(chan.version)) =>
                    /\ rx'[s].obs = pubs[chan.version]
                    /\ rx'[s].obs # rx[s].obs
            /\ Woken(s) =>
                    /\ rx[s].seen < chan.version
                    /\ rx'[s].seen = chan.version
                    /\ ~changed_ready(rx'[s], chan')]_vars
    /\ \A s \in Subscribers :
            (rx[s].st = "idle" /\ rx[s].seen < chan.version)
                ~> (rx[s].st # "idle")

C9_Witness ==
    \E s \in Subscribers :
        /\ rx[s].st = "idle" /\ rx[s].seen = 1 /\ rx[s].obsVer = 1
        /\ chan.version = 1
        /\ rx[s].obs = pubs[1] /\ rx[s].obs # chan.seed
        /\ ~changed_ready(rx[s], chan)

\* C10: latest-value semantics.  The channel holds the value of the last
\* publish of its watcher (its seed before any); what a subscriber reads is
\* the channel's value at the moment of the read, and the versions it reads
\* never go back; a live subscriber has a notification pending exactly when
\* a publish is newer than what it has marked seen, whether or not it was
\* awaiting at publish time, and one await consumes all pending publishes.
C10_LatestValue ==
    /\ [](/\ chan.version = Len(pubs)
          /\ chan.value = ValueAt(chan.version)
          /\ \A s \in LiveReceivers :
                /\ rx[s].obs = ValueAt(rx[s].obsVer)
                /\ rx[s].seen <= chan.version /\ rx[s].obsVer <= chan.version
                /\ rx[s].st = "idle" =>
                        (changed_ready(rx[s], chan) <=> rx[s].seen < chan.version))
    /\ [][/\ \A s \in Subscribers :
                /\ rx'[s].st # "dropped" => rx'[s].obsVer >= rx[s].obsVer
                /\ Woken(s) => rx'[s].seen = chan.version
                /\ Reads(s) => rx'[s].obs = chan.value
          /\ (chan' # chan /\ task # "none") => (task = "query" /\ task' = Waiting)]_vars

C10_Witness ==
    \E s \in Subscribers :
        /\ Len(pubs) = 2 /\ pubs[1] # pubs[2]
        /\ rx[s].st = "idle" /\ rx[s].seen = 2 /\ rx[s].obsVer = 2
        /\ rx[s].obs = pubs[2]

\* The channel exists and every receiver of it has been dropped.
AllDropped == chan.open /\ LiveReceivers = {}

\* C11: the Windows watcher task exits once every receiver of its channel
\* has been dropped, and only then.  It exits nowhere but at the is_closed()
\* test at the head of a loop iteration, which it reaches after every sleep;
\* the test passes on to the size query exactly while a receiver is alive,
\* so after the last receiver is dropped the task makes at most one more
\* size query (the one of the iteration it is in) and then exits.
C11_WindowsExit ==
    /\ [](platform = "windows" =>
            /\ task = "exited" => AllDropped
            /\ late.q <= 1)
    /\ [][platform = "windows" =>
            /\ (task # "exited" /\ task' = "exited") => (task = "check" /\ AllDropped)
            /\ (task = "check" /\ task' # "check") =>
                    task' = (IF AllDropped THEN "exited" ELSE "query")
            /\ (task = "sleep" /\ task' # "sleep") => task' = "check"
            /\ (task = "exited") => task' = "exited"
            /\ AllDropped => AllDropped']_vars
    /\ (platform = "windows" /\ AllDropped) ~> (task = "exited")

\* The task has exited after making its one last query with no receiver left.
C11_Witness ==
    /\ platform = "windows" /\ task = "exited"
    /\ AllDropped /\ late.q = 1

\* C12: a size query that fails inside the watcher loop, on either driver,
\* leaves the channel as it was (value and version, nothing is published)
\* and sends the task on to its next wait, never to its exit; a query that
\* succeeds, after a failed one as at any other time, publishes as the
\* driver publishes, and the watcher can always make it when it has been
\* triggered.
C12_FailedQuerySkips ==
    /\ [][/\ WatcherQuery(FALSE) =>
                /\ chan' = chan /\ pubs' = pubs
                /\ task' = Waiting /\ task' # "exited"
          /\ WatcherQuery(TRUE) =>
                /\ chan'.value = geom
                /\ chan'.version =
                      (IF platform = "unix" \/ chan.value # geom
                       THEN chan.version + 1 ELSE chan.version)
                /\ task' = Waiting]_vars
    /\ [](task = "query" =>
            /\ ENABLED WatcherQuery(FALSE)
            /\ (Len(pubs) < MaxPublishes => ENABLED WatcherQuery(TRUE)))

\* The POSIX watcher has consumed the signal of a resize and is waiting for
\* the next one, and the channel still has the value and the version it was
\* created with: the query after that signal failed.
C12_Witness ==
    /\ platform = "unix" /\ chan.open
    /\ task = "recv" /\ ~sigPending
    /\ geom # chan.value /\ chan.version = 0 /\ pubs = <<>>

\* C13: an on_resize() call whose initial size() query fails, or whose
\* spawn step fails (the POSIX signal registration), returns that error and
\* changes nothing: no channel exists, no receiver is handed out and no
\* watcher task runs, after the call as before it.
C13_FailedOnResize ==
    /\ [][\A fail \in {"size", "spawn"} :
            OnResize(fail) =>
                /\ ret'.op = "on_resize" /\ ret'.err = fail
                /\ UNCHANGED <<chan, rx, task, pubs, sigPending>>]_vars
    /\ []((ret.op = "on_resize" /\ ret.err # "none") =>
            /\ task = "none" /\ ~chan.open
            /\ \A s \in Subscribers : rx[s].st = "none")
    /\ [](task # "none" => (chan.open /\ ret.op = "on_resize" /\ ret.err = "none"))

\* on_resize() has returned the error of the signal registration.
C13_Witness ==
    /\ platform = "unix"
    /\ ret.op = "on_resize" /\ ret.err = "spawn"
    /\ task = "none" /\ ~chan.open /\ rx[1].st = "none"

\* C14: when on_resize() returns Ok, the channel and the receiver it hands
\* out hold the size its size() query returned, and the receiver has no
\* change notification pending; none becomes pending for any receiver
\* before the watcher publishes, and until then the channel keeps that size.
C14_FreshReceiver ==
    /\ [][OnResize("none") =>
            /\ ret'.op = "on_resize" /\ ret'.err = "none"
            /\ chan'.open /\ chan'.value = geom
            /\ rx'[1].st = "idle" /\ rx'[1].obs = geom
            /\ ~changed_ready(rx'[1], chan')]_vars
    /\ [](pubs = <<>> =>
            /\ chan.value = chan.seed
            /\ \A s \in LiveReceivers :
                    /\ ~changed_ready(rx[s], chan)
                    /\ rx[s].st = "idle" /\ rx[s].obs = chan.seed)

\* on_resize() has just returned its receiver.
C14_Witness ==
    /\ ret.op = "on_resize" /\ ret.err = "none"
    /\ task \in {"recv", "check"} /\ pubs = <<>>
    /\ chan.value = geom
    /\ rx[1] = Receiver("idle", 0, geom, 0)
    /\ ~changed_ready(rx[1], chan)

\* A subscriber comes into being (by on_resize() or by a clone).
Created(s) == rx[s].st = "none" /\ rx'[s].st = "idle"

\* What one subscriber does with its receiver leaves the channel and every
\* other receiver, its pending notification included, as they were.
Independent ==
    \A s \in Subscribers :
        (Woken(s) \/ Reads(s) \/ (s # 1 /\ Created(s))
            \/ (rx[s].st # "dropped" /\ rx'[s].st = "dropped")) =>
            /\ chan' = chan
            /\ \A u \in Subscribers \ {s} :
                    /\ rx'[u] = rx[u]
                    /\ changed_ready(rx'[u], chan') <=> changed_ready(rx[u], chan)

\* A wake-up consumes every publish up to the current one: no publish wakes
\* the same subscriber twice.
OncePerPublish ==
    \A s \in Subscribers :
        Woken(s) =>
            /\ rx[s].seen < chan.version
            /\ rx'[s].seen = chan.version
            /\ ~changed_ready(rx'[s], chan')

\* The claim C15 as stated: subscribers are notified independently, at most
\* once per publish, and a subscriber created after a publish has no
\* notification pending for that earlier publish.
C15_OnlyLaterPublishes ==
    [][/\ Independent
       /\ OncePerPublish
       /\ \A s \in Subscribers :
            Created(s) => ~changed_ready(rx'[s], chan')]_vars

\* C15 (amended): subscribers are notified independently and at most once
\* per publish; the receiver on_resize() returns has nothing pending, and a
\* further subscriber, which can only be a clone of a live receiver, starts
\* from the version its source has marked seen: it is notified for an
\* earlier publish exactly when its source still had that notification
\* pending, and a clone of an up-to-date receiver is notified only for
\* later publishes.
C15_NotifiedIndependently ==
    /\ [][/\ Independent
          /\ OncePerPublish
          /\ Created(1) => ~changed_ready(rx'[1], chan')
          /\ \A s \in Subscribers \ {1} :
                Created(s) =>
                    \E u \in LiveReceivers :
                        /\ rx'[s].seen = rx[u].seen
                        /\ changed_ready(rx'[s], chan') <=> changed_ready(rx[u], chan)]_vars
    /\ [](\A s \in LiveReceivers :
            rx[s].st = "idle" => (changed_ready(rx[s], chan) <=> rx[s].seen < chan.version))

\* One subscriber has consumed the notification of the latest publish while
\* another still has it pending.
C15_Witness ==
    \E s, u \in LiveReceivers :
        /\ s # u /\ chan.version >= 1
        /\ rx[s].st = "notified" /\ rx[s].seen = chan.version
        /\ rx[u].st = "idle" /\ changed_ready(rx[u], chan)

\* C19: the POSIX watcher task has no exit.  The task a successful
\* on_resize() spawned (its handle is dropped, which detaches the task) is
\* for ever either waiting for a window-change signal or at its size query;
\* with every receiver of its channel dropped it still takes the next signal
\* and publishes, to a channel nobody reads.
C19_PosixWatcherImmortal ==
    /\ [](platform = "unix" => task \in {"none", "recv", "query"})
    /\ [][(platform = "unix" /\ task # "none") => task' \in {"recv", "query"}]_vars
    /\ [][(platform = "unix" /\ OnResize("none")) => task' = "recv"]_vars
    /\ []((platform = "unix" /\ AllDropped) =>
            /\ (task = "recv" /\ sigPending) => ENABLED UnixRecv
            /\ (task = "query") => ENABLED WatcherQuery(FALSE)
            /\ (task = "query" /\ Len(pubs) < MaxPublishes) =>
                    /\ ENABLED WatcherQuery(TRUE)
                    /\ send_replace(chan, geom).version = chan.version + 1)

\* With every receiver dropped the POSIX watcher has published and is
\* waiting for the next signal.
C19_Witness ==
    /\ platform = "unix" /\ AllDropped
    /\ late.p >= 1 /\ task = "recv"
    /\ chan.version = Len(pubs) /\ chan.value = pubs[Len(pubs)]

-----------------------------------------------------------------------------
(* Guards released in acquisition order (Spec).                            *)

\* The second guard was acquired while the first was held, the first was
\* released while the second was held, and both releases restored.
FifoPair ==
    /\ Len(guards) >= 2
    /\ 1 \in guards[2].nested /\ 2 \in guards[1].outlived
    /\ guards[1].restored /\ guards[2].restored

\* The claim C18 as stated: once two guards held together have been released
\* in acquisition order from a cooked terminal, the mode is raw and no later
\* operation restores the mode from before the first guard.
C18_OriginalNeverRestored ==
    (FifoPair /\ ~sys_is_raw_mode(guards[1].pre)) =>
        (mode # guards[1].pre /\ sys_is_raw_mode(mode))

\* C18 (amended): when the first two guards are held together and released in
\* acquisition order, the release of the second guard leaves the state the
\* second guard captured, which is the raw mode the first guard applied:
\* is_raw_mode_enabled() is true of it, and when the terminal started cooked
\* it is not the mode from before the first guard.  From then on the mode
\* stays raw and never returns to that original mode, unless a further
\* guard captured the original mode between the two releases.
C18_FifoLeavesRaw ==
    /\ (FifoPair /\ lastWrite.op = "restore" /\ lastWrite.g = 2) =>
            /\ mode = guards[2].state
            /\ guards[2].state = sys_raw_of(guards[1].pre)
            /\ sys_is_raw_mode(mode)
            /\ ~sys_is_raw_mode(guards[1].pre) => mode # guards[1].pre
    /\ (/\ FifoPair
        /\ ~sys_is_raw_mode(guards[1].pre)
        /\ \A g \in 3 .. Len(guards) : guards[g].state # guards[1].pre) =>
            /\ mode # guards[1].pre
            /\ sys_is_raw_mode(mode)
            /\ (ret.op = "is_raw" /\ ret.err = "none" /\ ret.n0 = Len(guards)
                    /\ ret.mode0 = mode) => ret.value

\* Both guards are gone after a release in acquisition order from a cooked
\* terminal, and is_raw_mode_enabled() has answered true.
C18_Witness ==
    /\ FifoPair /\ Len(guards) = 2
    /\ ~sys_is_raw_mode(guards[1].pre)
    /\ mode = guards[2].state /\ mode # guards[1].pre
    /\ ret.op = "is_raw" /\ ret.err = "none" /\ ret.value

-----------------------------------------------------------------------------
(* Properties of the Windows driver on every console mode (SpecWinModes).  *)

\* Bit b (a power of two) is set in the mask m.
HasBit(m, b) == (m \div b) % 2 = 1

ModeBits == { 2 ^ i : i \in 0 .. (MaxModeBits - 1) }

RawBits ==
    {ENABLE_EXTENDED_FLAGS, ENABLE_INSERT_MODE, ENABLE_QUICK_EDIT_MODE,
     ENABLE_VIRTUAL_TERMINAL_INPUT}

CookedBits ==
    {ENABLE_LINE_INPUT, ENABLE_ECHO_INPUT, ENABLE_MOUSE_INPUT,
     ENABLE_WINDOW_INPUT, ENABLE_PROCESSED_INPUT}

\* C16: on the Windows driver is_raw_mode_enabled() returns true exactly
\* when each of the four raw bits is set and none of the five cooked bits is
\* set in the console mode it read, whatever the mode; the raw mask and the
\* cooked mask consist of exactly those bits and have no bit in common.
C16_WindowsRawPredicate ==
    /\ (ret.op = "is_raw" /\ ret.err = "none") =>
            (ret.value <=> /\ \A b \in RawBits : HasBit(ret.mode0, b)
                           /\ \A b \in CookedBits : ~HasBit(ret.mode0, b))
    /\ \A b \in ModeBits :
            /\ HasBit(RAW_MODE_MASK, b) <=> b \in RawBits
            /\ HasBit(NOT_RAW_MODE_MASK, b) <=> b \in CookedBits
    /\ RawBits \cap CookedBits = {}
    /\ Cardinality(RawBits) = 4 /\ Cardinality(CookedBits) = 5

\* The query has answered true on a mode with all raw bits, no cooked bit
\* and an unrelated bit.
C16_Witness ==
    /\ ret.op = "is_raw" /\ ret.err = "none" /\ ret.value
    /\ ret.mode0 = RAW_MODE_MASK + ENABLE_AUTO_POSITION

\* C17: on the Windows driver the mode a successful enable_raw_mode()
\* writes has every cooked bit clear, every raw bit set and every other bit
\* as in the mode it read, whatever that mode; the guard holds the mode read.
C17_WindowsEnableFrame ==
    (lastWrite.op = "enable") =>
        /\ \A b \in ModeBits :
                HasBit(mode, b) <=>
                    (IF b \in CookedBits THEN FALSE
                     ELSE IF b \in RawBits THEN TRUE
                     ELSE HasBit(lastWrite.before, b))
        /\ mode \in ConsoleModes
        /\ guards[1].state = lastWrite.before

\* enable_raw_mode() has run on a mode with cooked bits, some raw bits and
\* an unrelated bit, which it kept.
C17_Witness ==
    /\ lastWrite.op = "enable"
    /\ lastWrite.before = NOT_RAW_MODE_MASK + ENABLE_INSERT_MODE + ENABLE_AUTO_POSITION
    /\ mode = RAW_MODE_MASK + ENABLE_AUTO_POSITION

=============================================================================